---- MODULE Spec2Model ----
(***************************************************************************)
(* The Noise_XX handshake engine of ockam_identity                         *)
(* (secure_channel/handshake/handshake.rs): two Handshake values, one per  *)
(* party, sharing one vault.  Cryptography is symbolic: a secret is a term *)
(* and a byte string is a sequence of segments, each a slice of a term, so *)
(* lengths, slicing, concatenation and equality are the ones of the code.  *)
(***************************************************************************)
EXTENDS Integers, Sequences, FiniteSets, TLC

VARIABLES
    state,      \* engine -> HandshakeState {s, e, k, re, rs, n, h, ck, status}
    vault,      \* handle -> secret, the secrets that exist in the vault
    nx,         \* engine -> index of the next handle the vault hands to it
    net,        \* message number -> the last message encoded (Option)
    sent,       \* message number -> the payload given to that encode (Option)
    last,       \* engine -> the outcome of the last call on it
    pos,        \* engine -> number of in-order calls that succeeded so far
    run,        \* engine -> "sound" | "failed" | "dev" | "dropped"
    extra,      \* calls outside a sound run the caller may still make
    faults,     \* vault faults that may still happen
    wire,       \* whether payloads vary and the wire changes bytes
    dirty,      \* the messages a decode was given with a byte changed
    log         \* engine -> the AEAD calls made for it

vars == <<state, vault, nx, net, sent, last, pos, run, extra, faults, wire,
          dirty, log>>

(* ---------------------------------------------------------------- bounds *)
MaxExtra == 2       \* calls outside the role's order or after a failure
MaxFaults == 1      \* vault calls that fail
MaxPayload == 1     \* payloads are empty or MaxPayload bytes long
MaxMixed == 1          \* calls out of order, and vault faults, in SpecMixed

(* ------------------------------------------------------------- constants *)
SHA256_SIZE_USIZE == 32
AES_GCM_TAGSIZE_USIZE == 16
X25519_PUBLIC_LENGTH_USIZE == 32
NONCE_SIZE == 12

Engines == {"I", "R"}
Initiator == "I"
Responder == "R"
None == <<>>
Some(x) == <<x>>

(* ------------------------------------------------------------ byte strings
   A byte string is a sequence of segments [v, o, l]: the l bytes at offset
   o of the term v.  Two byte strings are equal iff their segments are. *)
Whole(v, len) == IF len = 0 THEN <<>> ELSE <<[v |-> v, o |-> 0, l |-> len]>>

RECURSIVE BLen(_)
BLen(bs) == IF bs = <<>> THEN 0 ELSE Head(bs).l + BLen(Tail(bs))

RECURSIVE Take(_, _)
Take(bs, n) ==
    IF n = 0 \/ bs = <<>> THEN <<>>
    ELSE IF Head(bs).l <= n THEN <<Head(bs)>> \o Take(Tail(bs), n - Head(bs).l)
    ELSE <<[Head(bs) EXCEPT !.l = n]>>

RECURSIVE Drop(_, _)
Drop(bs, n) ==
    IF n = 0 \/ bs = <<>> THEN bs
    ELSE IF Head(bs).l <= n THEN Drop(Tail(bs), n - Head(bs).l)
    ELSE <<[Head(bs) EXCEPT !.o = @ + n, !.l = @ - n]>> \o Tail(bs)

(* ------------------------------------------------------------------ terms *)
Label == [t |-> "label"]                \* Noise_XX_25519_AESGCM_SHA256\0\0\0\0
Zeros == [t |-> "zeros"]                \* 32 zero bytes
PrivKey(id) == [t |-> "priv", id |-> id]
PubKey(id) == [t |-> "pub", id |-> id]
Payload(j) == [t |-> "payload", len |-> j]
Tampered(v, hi) == [t |-> "tampered", v |-> v, hi |-> hi]

Payloads ==
    IF wire THEN {<<>>, Whole(Payload(MaxPayload), MaxPayload)} ELSE {<<>>}

(* the X25519 point a 32-byte string denotes: the top bit of the last byte
   is ignored by X25519, so a string that differs from a public key in that
   bit alone denotes the same point *)
Point(pk) ==
    IF BLen(pk) = X25519_PUBLIC_LENGTH_USIZE /\ BLen(pk) = Head(pk).l
       /\ Head(pk).v.t = "pub"
    THEN [t |-> "point", id |-> Head(pk).v.id]
    ELSE IF BLen(pk) = X25519_PUBLIC_LENGTH_USIZE /\ BLen(pk) = Head(pk).l
       /\ Head(pk).v.t = "tampered" /\ Head(pk).v.hi /\ Head(pk).v.v.t = "pub"
    THEN [t |-> "point", id |-> Head(pk).v.v.id]
    ELSE [t |-> "junk", bs |-> pk]

(* ------------------------------------------------------- HandshakeState *)
sha256(data) == [t |-> "sha", in |-> data]

\* mutant: the data is left out of the transcript hash
mix_hash_without_data(st, data) ==
    [st EXCEPT !.h = sha256(Whole(st.h, SHA256_SIZE_USIZE))]

mix_hash(st, data) ==
    [st EXCEPT !.h = sha256(Whole(st.h, SHA256_SIZE_USIZE) \o data)]

HandshakeState_new(s, e) ==
    [s |-> Some(s), e |-> Some(e), k |-> None, re |-> None, rs |-> None,
     n |-> 0, h |-> Zeros, ck |-> None, status |-> [t |-> "Initial"]]

Ready(encryption_key, decryption_key) ==
    [t |-> "Ready", encryption_key |-> encryption_key,
     decryption_key |-> decryption_key]

(* ------------------------------------------------------------------ vault
   The vault is the SecureChannelVault collaborator (spec 4.4).  A secret is
   [ty, val]; a handle is <<engine, index>>, fresh at every allocation.
   An operation runs on a context c: the working copy of the state (st),
   the vault (v), the error raised so far (err), the number of vault calls
   made (c), the call that fails by injection (f, 0 for none; fk = "arity"
   makes an HKDF answer with one handle instead), the last handle (hd),
   bytes (out) and HKDF answer (hk), the message built (msg), the AEAD
   calls made (log) and the engine's own state (self), which an
   operation replaces by its working copy when it assigns self.state. *)
Secret(ty, val) == [ty |-> ty, val |-> val]
StaticKey(eng) == <<eng, 0>>
EphemeralKey(eng) == <<eng, 1>>

Ok(c) == c.err = "ok"
Fail(c, e) == [c EXCEPT !.err = e]
Called(c) == [c EXCEPT !.c = @ + 1]
Injected(c) == c.f = c.c + 1
Fresh(c) == <<c.eng, c.nx>>
Alloc(c, sec) == [c EXCEPT !.v = @ @@ (Fresh(c) :> sec), !.nx = @ + 1]
Remove(v, hd) == [x \in DOMAIN v \ {hd} |-> v[x]]

import_ephemeral_secret(c, val, ty) ==
    IF ~Ok(c) THEN c
    ELSE IF Injected(c) THEN Fail(Called(c), "VaultError")
    ELSE [Alloc(Called(c), Secret(ty, val)) EXCEPT !.hd = Fresh(c)]

vault_get_public_key(c, key) ==
    IF ~Ok(c) THEN c
    ELSE IF Injected(c) \/ key \notin DOMAIN c.v THEN Fail(Called(c), "VaultError")
    ELSE IF c.v[key].ty # "X25519" THEN Fail(Called(c), "VaultError")
    ELSE [Called(c) EXCEPT
            !.out = Whole(PubKey(c.v[key].val.id), X25519_PUBLIC_LENGTH_USIZE)]

ec_diffie_hellman(c, key, pk) ==
    IF ~Ok(c) THEN c
    ELSE IF Injected(c) \/ key \notin DOMAIN c.v THEN Fail(Called(c), "VaultError")
    ELSE IF c.v[key].ty # "X25519" \/ BLen(pk) # X25519_PUBLIC_LENGTH_USIZE
    THEN Fail(Called(c), "VaultError")
    ELSE [Alloc(Called(c),
                Secret("Buffer",
                       [t |-> "dh",
                        pair |-> {[t |-> "point", id |-> c.v[key].val.id],
                                  Point(pk)}]))
            EXCEPT !.hd = Fresh(c)]

HkdfOut(salt, ikm, i) == [t |-> "hkdf", salt |-> salt, ikm |-> ikm, i |-> i]

\* ikm is an Option handle; tys the two requested output types
hkdf_sha256(c, salt, ikm, tys) ==
    IF ~Ok(c) THEN c
    ELSE IF Injected(c) /\ c.fk = "fail" THEN Fail(Called(c), "VaultError")
    ELSE IF salt \notin DOMAIN c.v \/ (ikm # None /\ ikm[1] \notin DOMAIN c.v)
    THEN Fail(Called(c), "VaultError")
    ELSE LET im == IF ikm = None THEN None ELSE Some(c.v[ikm[1]].val)
             c1 == Alloc(Called(c), Secret(tys[1], HkdfOut(c.v[salt].val, im, 1)))
             c2 == Alloc(c1, Secret(tys[2], HkdfOut(c.v[salt].val, im, 2)))
         IN IF Injected(c) THEN [c1 EXCEPT !.hk = <<Fresh(c)>>]
            ELSE [c2 EXCEPT !.hk = <<Fresh(c), Fresh(c1)>>]

\* c.del: the handles the operation has asked the vault to delete
Asked(c, hd) == [c EXCEPT !.del = @ \cup {hd}]

delete_secret(c, hd) ==
    IF ~Ok(c) THEN c
    ELSE IF Injected(c) THEN Fail(Called(Asked(c, hd)), "VaultError")
    ELSE [Called(Asked(c, hd)) EXCEPT !.v = Remove(@, hd)]

RECURSIVE Shr8(_, _)
Shr8(n, j) == IF j = 0 THEN n ELSE Shr8(n \div 256, j - 1)

\* nonce[4..] = n.to_be_bytes() on 12 zero bytes
Nonce(n) == [i \in 1..NONCE_SIZE |-> IF i <= 4 THEN 0 ELSE Shr8(n, NONCE_SIZE - i) % 256]

Ciphertext(key, nonce, ad, p) ==
    [t |-> "ct", key |-> key, nonce |-> nonce, ad |-> ad, pt |-> p]

aead_aes_gcm_encrypt(c, key, p, nonce, ad) ==
    IF ~Ok(c) THEN c
    ELSE IF Injected(c) \/ key \notin DOMAIN c.v THEN Fail(Called(c), "VaultError")
    ELSE IF c.v[key].ty # "Aes256" THEN Fail(Called(c), "VaultError")
    ELSE [Called(c) EXCEPT
            !.out = Whole(Ciphertext(c.v[key].val, nonce, ad, p),
                          BLen(p) + AES_GCM_TAGSIZE_USIZE)]

\* the tag verifies iff ct is a whole ciphertext made under the same key
\* content, nonce and associated data
Authentic(ct, key, nonce, ad) ==
    /\ Len(ct) = 1
    /\ ct[1].v.t = "ct"
    /\ ct[1].o = 0
    /\ ct[1].l = BLen(ct[1].v.pt) + AES_GCM_TAGSIZE_USIZE
    /\ ct[1].v.key = key
    /\ ct[1].v.nonce = nonce
    /\ ct[1].v.ad = ad

aead_aes_gcm_decrypt(c, key, ct, nonce, ad) ==
    IF ~Ok(c) THEN c
    ELSE IF Injected(c) \/ key \notin DOMAIN c.v THEN Fail(Called(c), "VaultError")
    ELSE IF c.v[key].ty # "Aes256" THEN Fail(Called(c), "VaultError")
    ELSE IF ~Authentic(ct, c.v[key].val, nonce, ad) THEN Fail(Called(c), "AeadFailure")
    ELSE [Called(c) EXCEPT !.out = ct[1].v.pt]

(* --------------------------------------------------------------- Handshake
   A method is the sequence of its statements, run on a context by Run;
   `?` is the test on c.err that starts each statement, so a statement
   after an error does nothing.  A statement leaves the bytes it computes
   in c.out, a key handle in c.hd, a handle taken from a slot in c.old;
   c.arg is the method's payload or message and c.msg the message built. *)
Upd(c, st) == [c EXCEPT !.st = st]
Commit(c) == [c EXCEPT !.self = c.st]                      \* self.state = state
Need(c, slot) ==                                           \* state.slot()?
    IF Ok(c) /\ c.st[slot] = None THEN Fail(c, "MissingSlot") ELSE c
take(c, slot) ==                                           \* state.take_slot()?
    IF c.st[slot] = None THEN Fail(c, "MissingSlot")
    ELSE [c EXCEPT !.old = c.st[slot][1], !.st[slot] = None]

protocol_name == Label
ck_attributes == "Buffer"
k_attributes == "Aes256"
key_size == X25519_PUBLIC_LENGTH_USIZE
encrypted_key_size == key_size + AES_GCM_TAGSIZE_USIZE

import_k_secret(c, content) == import_ephemeral_secret(c, content, k_attributes)
import_ck_secret(c, content) == import_ephemeral_secret(c, content, ck_attributes)
get_public_key(c, key_id) == vault_get_public_key(c, key_id)
dh(c, key_id, public_key) == ec_diffie_hellman(c, key_id, public_key)

\* the read_* functions answer [ok, bytes]
read_start(message, length) ==
    IF BLen(message) < length THEN [ok |-> FALSE, b |-> <<>>]
    ELSE [ok |-> TRUE, b |-> Take(message, length)]

read_end(message, drop_length) ==
    IF BLen(message) < drop_length THEN [ok |-> FALSE, b |-> <<>>]
    ELSE [ok |-> TRUE, b |-> Drop(message, drop_length)]

read_middle(message, drop_length, length) ==
    IF BLen(message) < drop_length + length THEN [ok |-> FALSE, b |-> <<>>]
    ELSE [ok |-> TRUE, b |-> Take(Drop(message, drop_length), length)]

read_key(message) == read_start(message, key_size)
read_message1_payload(message) == read_end(message, key_size)
read_message2_encrypted_key(message) ==
    read_middle(message, key_size, encrypted_key_size)
\* mutant: the payload of message 2 read from the wrong offset
read_message2_payload_at_key(message) == read_end(message, key_size)

read_message2_payload(message) ==
    read_end(message, key_size + encrypted_key_size)
read_message3_encrypted_key(message) == read_start(message, encrypted_key_size)
read_message3_payload(message) == read_end(message, encrypted_key_size)

\* a read_* result taken with `?`: the bytes go to c.out
Read(c, r) ==
    IF ~r.ok THEN Fail(c, "MessageLenMismatch") ELSE [c EXCEPT !.out = r.b]

\* the bytes a statement names
Val(c, src) ==
    CASE src = "out" -> c.out
      [] src = "c" -> c.ct
      [] src \in {"payload", "message"} -> c.arg

\* d is c after an AEAD call: the call is recorded when it reached the vault,
\* with the content of its key (key), the state's h at the call (ad) and
\* the ciphertext it produced or was given (ct)
Logged(c, d, enc) ==
    IF c.st.k = None THEN d
    ELSE [d EXCEPT !.log = Append(@, [k |-> c.st.k[1], n |-> c.st.n,
                                      nonce |-> Nonce(c.st.n), enc |-> enc,
                                      ok |-> Ok(d),
                                      key |-> IF c.st.k[1] \in DOMAIN c.v
                                              THEN Some(c.v[c.st.k[1]].val)
                                              ELSE None,
                                      ad |-> c.st.h,
                                      ct |-> IF ~enc THEN d.ct
                                             ELSE IF Ok(d) THEN d.out ELSE <<>>])]

\* hkdf_output.try_into() as [KeyId; 2]
Arity2(c) == IF Len(c.hk) # 2 THEN Fail(c, "InternalVaultError") ELSE c

\* mutant: the plaintext is mixed into h instead of the ciphertext
hash_and_decrypt_mixes_plaintext ==
    << <<"aead_aes_gcm_decrypt", "out">>,
       <<"mix_hash", "out">>,
       <<"n += 1">> >>

hash_and_decrypt ==
    << <<"aead_aes_gcm_decrypt", "out">>,   \* (state.k()?, c, nonce(n), h)
       <<"mix_hash", "c">>,
       <<"n += 1">> >>

encrypt_and_hash(p) ==
    << <<"aead_aes_gcm_encrypt", p>>,       \* (state.k()?, p, nonce(n), h)
       <<"mix_hash", "out">>,
       <<"n += 1">> >>

\* mutant: the Diffie-Hellman key is left in the vault
hkdf_keeps_dh ==
    << <<"hkdf_sha256", Some("dh"), <<ck_attributes, k_attributes>> >>,
       <<"try_into">>,
       <<"take", "ck">>,
       <<"ck = Some(new_ck)">>,
       <<"delete_secret", "old">>,
       <<"take", "k">>,
       <<"k = Some(new_k)">>,
       <<"delete_secret", "old">>,
       <<"n = 0">> >>

\* the Diffie-Hellman key dh is in c.hd
hkdf ==
    << <<"hkdf_sha256", Some("dh"), <<ck_attributes, k_attributes>> >>,
       <<"delete_secret", "dh">>,
       <<"try_into">>,
       <<"take", "ck">>,
       <<"ck = Some(new_ck)">>,
       <<"delete_secret", "old">>,
       <<"take", "k">>,
       <<"k = Some(new_k)">>,
       <<"delete_secret", "old">>,
       <<"n = 0">> >>

\* the keys (k1, k2) are left in c.hk
\* mutant: the pre-final k is dropped from the state but left in the vault
compute_final_keys_keeps_k ==
    << <<"hkdf_sha256", None, <<k_attributes, k_attributes>> >>,
       <<"try_into">>,
       <<"take", "ck">>,
       <<"delete_secret", "old">>,
       <<"take", "k">> >>

compute_final_keys ==
    << <<"hkdf_sha256", None, <<k_attributes, k_attributes>> >>,
       <<"try_into">>,
       <<"take", "ck">>,
       <<"delete_secret", "old">>,
       <<"take", "k">>,
       <<"delete_secret", "old">> >>

\* mutant: h is left as the protocol name, not hashed
initialize_without_hash ==
    << <<"h = protocol_name">>,
       <<"import_k_secret">>,
       <<"k = Some">>,
       <<"import_ck_secret">>,
       <<"ck = Some">>,
       <<"self.state = state">> >>

initialize ==
    << <<"h = protocol_name">>,
       <<"import_k_secret">>,
       <<"k = Some">>,
       <<"import_ck_secret">>,
       <<"ck = Some">>,
       <<"h = sha256(h)">>,
       <<"self.state = state">> >>

encode_message1 ==
    << <<"get_public_key", "e">>,
       <<"mix_hash", "out">>,
       <<"extend", "out">>,
       <<"extend", "payload">>,
       <<"mix_hash", "payload">>,
       <<"self.state = state">> >>

\* mutant: the payload of message 1 is not mixed into h
decode_message1_payload_unhashed ==
    << <<"read_key">>,
       <<"mix_hash", "out">>,
       <<"re = Some">>,
       <<"read_message1_payload">>,
       <<"self.state = state">> >>

decode_message1 ==
    << <<"read_key">>,
       <<"mix_hash", "out">>,
       <<"re = Some">>,
       <<"read_message1_payload">>,
       <<"mix_hash", "out">>,
       <<"self.state = state">> >>

\* mutant: the state is assigned after the first rotation already
encode_message2_commits_early ==
    << <<"get_public_key", "e">>,
       <<"mix_hash", "out">>,
       <<"extend", "out">>,
       <<"dh", "e", "re">>,
       <<"hkdf">>,
       <<"self.state = state">>,
       <<"get_public_key", "s">>,
       <<"encrypt_and_hash", "out">>,
       <<"extend", "out">>,
       <<"dh", "s", "re">>,
       <<"hkdf">>,
       <<"encrypt_and_hash", "payload">>,
       <<"extend", "out">>,
       <<"self.state = state">> >>

encode_message2 ==
    << <<"get_public_key", "e">>,
       <<"mix_hash", "out">>,
       <<"extend", "out">>,
       <<"dh", "e", "re">>,
       <<"hkdf">>,
       <<"get_public_key", "s">>,
       <<"encrypt_and_hash", "out">>,
       <<"extend", "out">>,
       <<"dh", "s", "re">>,
       <<"hkdf">>,
       <<"encrypt_and_hash", "payload">>,
       <<"extend", "out">>,
       <<"self.state = state">> >>

decode_message2 ==
    << <<"read_key">>,
       <<"re = Some">>,
       <<"mix_hash", "out">>,
       <<"dh", "e", "re">>,
       <<"hkdf">>,
       <<"read_message2_encrypted_key">>,
       <<"hash_and_decrypt">>,
       <<"rs = Some">>,
       <<"dh", "e", "rs">>,
       <<"hkdf">>,
       <<"read_message2_payload">>,
       <<"hash_and_decrypt">>,
       <<"self.state = state">> >>

\* mutant: the encrypted s.pub is left out of message 3
encode_message3_without_key ==
    << <<"get_public_key", "s">>,
       <<"encrypt_and_hash", "out">>,
       <<"dh", "s", "re">>,
       <<"hkdf">>,
       <<"encrypt_and_hash", "payload">>,
       <<"extend", "out">>,
       <<"self.state = state">> >>

encode_message3 ==
    << <<"get_public_key", "s">>,
       <<"encrypt_and_hash", "out">>,
       <<"extend", "out">>,
       <<"dh", "s", "re">>,
       <<"hkdf">>,
       <<"encrypt_and_hash", "payload">>,
       <<"extend", "out">>,
       <<"self.state = state">> >>

decode_message3 ==
    << <<"read_message3_encrypted_key">>,
       <<"hash_and_decrypt">>,
       <<"rs = Some">>,
       <<"dh", "e", "rs">>,
       <<"hkdf">>,
       <<"read_message3_payload">>,
       <<"hash_and_decrypt">>,
       <<"self.state = state">> >>

\* mutant: the static key is taken and deleted instead of the ephemeral one
delete_ephemeral_keys_takes_s(c) ==
    IF c.self.s = None THEN Fail(c, "MissingSlot")
    ELSE delete_secret([c EXCEPT !.self.s = None], c.self.s[1])

\* self.state.take_e()? and the vault's delete: on the engine's own state
delete_ephemeral_keys(c) ==
    IF c.self.e = None THEN Fail(c, "MissingSlot")
    ELSE delete_secret([c EXCEPT !.self.e = None], c.self.e[1])

\* mutant: both roles take (k1, k2)
HandshakeKeys_same(role, k1, k2) == Ready(k1, k2)

\* (encryption_key, decryption_key) by role, as the Ready status
HandshakeKeys(role, k1, k2) ==
    IF role = Initiator THEN Ready(k2, k1) ELSE Ready(k1, k2)

set_final_state ==
    << <<"compute_final_keys">>,
       <<"status = Ready">>,
       <<"self.state = state">>,
       <<"delete_ephemeral_keys">> >>

get_handshake_keys(st) ==
    IF st.status.t = "Ready"
    THEN Some(<<st.status.encryption_key, st.status.decryption_key>>)
    ELSE None

\* one statement; Run the statements of a method in order
RECURSIVE Run(_, _), Exec(_, _)
Exec(c, ins) ==
    IF ~Ok(c) THEN c
    ELSE CASE ins[1] = "self.state = state" -> Commit(c)
      [] ins[1] = "take" -> take(c, ins[2])
      [] ins[1] = "mix_hash" -> Upd(c, mix_hash(c.st, Val(c, ins[2])))
      [] ins[1] = "extend" -> [c EXCEPT !.msg = @ \o Val(c, ins[2])]
      [] ins[1] = "n += 1" -> Upd(c, [c.st EXCEPT !.n = @ + 1])
      [] ins[1] = "n = 0" -> Upd(c, [c.st EXCEPT !.n = 0])
      [] ins[1] = "h = protocol_name" -> Upd(c, [c.st EXCEPT !.h = protocol_name])
      [] ins[1] = "h = sha256(h)" ->
            Upd(c, [c.st EXCEPT !.h = sha256(Whole(c.st.h, SHA256_SIZE_USIZE))])
      [] ins[1] = "import_k_secret" -> import_k_secret(c, Zeros)
      [] ins[1] = "import_ck_secret" -> import_ck_secret(c, protocol_name)
      [] ins[1] = "k = Some" -> Upd(c, [c.st EXCEPT !.k = Some(c.hd)])
      [] ins[1] = "ck = Some" -> Upd(c, [c.st EXCEPT !.ck = Some(c.hd)])
      [] ins[1] = "ck = Some(new_ck)" -> Upd(c, [c.st EXCEPT !.ck = Some(c.hk[1])])
      [] ins[1] = "k = Some(new_k)" -> Upd(c, [c.st EXCEPT !.k = Some(c.hk[2])])
      [] ins[1] = "re = Some" -> Upd(c, [c.st EXCEPT !.re = Some(c.out)])
      [] ins[1] = "rs = Some" -> Upd(c, [c.st EXCEPT !.rs = Some(c.out)])
      [] ins[1] = "get_public_key" ->
            get_public_key(Need(c, ins[2]), c.st[ins[2]][1])
      [] ins[1] = "dh" ->
            dh(Need(Need(c, ins[2]), ins[3]), c.st[ins[2]][1], c.st[ins[3]][1])
      [] ins[1] = "hkdf_sha256" ->
            hkdf_sha256(Need(c, "ck"), c.st.ck[1],
                        IF ins[2] = None THEN None ELSE Some(c.hd), ins[3])
      [] ins[1] = "delete_secret" ->
            delete_secret(c, IF ins[2] = "dh" THEN c.hd ELSE c.old)
      [] ins[1] = "try_into" -> Arity2(c)
      [] ins[1] = "aead_aes_gcm_encrypt" ->
            Logged(c, aead_aes_gcm_encrypt(Need(c, "k"), c.st.k[1], Val(c, ins[2]),
                                           Nonce(c.st.n), c.st.h), TRUE)
      [] ins[1] = "aead_aes_gcm_decrypt" ->
            Logged(c, [aead_aes_gcm_decrypt(Need(c, "k"), c.st.k[1], Val(c, ins[2]),
                                            Nonce(c.st.n), c.st.h)
                         EXCEPT !.ct = Val(c, ins[2])], FALSE)
      [] ins[1] = "read_key" -> Read(c, read_key(c.arg))
      [] ins[1] = "read_message1_payload" -> Read(c, read_message1_payload(c.arg))
      [] ins[1] = "read_message2_encrypted_key" ->
            Read(c, read_message2_encrypted_key(c.arg))
      [] ins[1] = "read_message2_payload" -> Read(c, read_message2_payload(c.arg))
      [] ins[1] = "read_message3_encrypted_key" ->
            Read(c, read_message3_encrypted_key(c.arg))
      [] ins[1] = "read_message3_payload" -> Read(c, read_message3_payload(c.arg))
      [] ins[1] = "hkdf" -> Run(c, hkdf)
      [] ins[1] = "encrypt_and_hash" -> Run(c, encrypt_and_hash(ins[2]))
      [] ins[1] = "hash_and_decrypt" -> Run(c, hash_and_decrypt)
      [] ins[1] = "compute_final_keys" -> Run(c, compute_final_keys)
      [] ins[1] = "status = Ready" ->
            Upd(c, [c.st EXCEPT !.status = HandshakeKeys(c.role, c.hk[1], c.hk[2])])
      [] ins[1] = "delete_ephemeral_keys" -> delete_ephemeral_keys(c)

Run(c, code) ==
    IF Len(code) = 0 THEN c ELSE Run(Exec(c, Head(code)), Tail(code))

(* ------------------------------------------------------------- the system
   Two engines, an initiator "I" and a responder "R", built by Handshake::new
   on one vault.  The caller may call any operation on any engine at any
   time (the engine has no notion of order of its own); a message encoded
   is put on the wire, from where a decode takes it as it is, with one
   byte changed, or cut one byte short of its fixed part. *)
Order(eng) ==
    IF eng = Initiator
    THEN <<"initialize", "encode_message1", "decode_message2",
           "encode_message3", "set_final_state">>
    ELSE <<"initialize", "decode_message1", "encode_message2",
           "decode_message3", "set_final_state">>

FixedPart(i) ==
    IF i = 1 THEN key_size
    ELSE IF i = 2 THEN key_size + encrypted_key_size + AES_GCM_TAGSIZE_USIZE
    ELSE encrypted_key_size + AES_GCM_TAGSIZE_USIZE

\* the message on the wire with one byte changed: the byte lies in one of
\* its segments, and in a public key it may be the bit X25519 ignores
Changed(m) ==
    {[m EXCEPT ![j].v = Tampered(@, FALSE)] : j \in 1..Len(m)}
    \cup {[m EXCEPT ![j].v = Tampered(@, TRUE)] :
            j \in {x \in 1..Len(m) : m[x].v.t = "pub"}}

\* the messages a decode of message i may be given: [m, kind]
Inputs(i) ==
    IF net[i] = None THEN {[m |-> <<>>, kind |-> "absent"]}
    ELSE LET m == net[i][1] IN
         {[m |-> m, kind |-> "genuine"]}
         \cup {[m |-> Take(m, FixedPart(i) - 1), kind |-> "short"]}
         \cup IF wire THEN {[m |-> x, kind |-> "byte"] : x \in Changed(m)} ELSE {}

MaxVaultCalls == 12     \* the most vault calls of one operation (decode_message2)
FaultKinds == {"fail", "arity"}

\* the context a call starts in: arg is its payload or message
Context(eng, f, fk, arg, role) ==
    [st |-> state[eng], self |-> state[eng], v |-> vault, nx |-> nx[eng],
     err |-> "ok", c |-> 0, f |-> f, fk |-> fk, hd |-> StaticKey(eng),
     old |-> StaticKey(eng), out |-> <<>>, ct |-> <<>>, hk |-> <<>>,
     msg |-> <<>>, arg |-> arg, role |-> role, log |-> log[eng], eng |-> eng,
     del |-> {}]

\* the choices of an injected vault fault: none, or one within the budget
Faults == {[f |-> 0, fk |-> "fail"]}
          \cup {[f |-> f, fk |-> fk] : f \in 1..MaxVaultCalls, fk \in FaultKinds}

\* the fault chosen has happened in the run that ended in r
Fired(ft, r) ==
    \/ ft.f = 0
    \/ /\ faults > 0
       /\ \/ ft.fk = "fail" /\ r.c = ft.f /\ r.err = "VaultError"
          \/ ft.fk = "arity" /\ Len(r.hk) = 1

InOrder(eng, op, role, kind) ==
    /\ run[eng] = "sound"
    /\ pos[eng] < Len(Order(eng))
    /\ op = Order(eng)[pos[eng] + 1]
    /\ role = eng
    /\ kind # "absent"

\* a call outside the order: within the budget, on one engine only (its
\* peer follows the protocol and stops at its first error)
MayDeviate(eng) ==
    /\ extra > 0
    /\ \A o \in Engines \ {eng} : run[o] # "dev"

\* the handles an engine holds in its e, k and ck slots
Held(st) == [e |-> st.e, k |-> st.k, ck |-> st.ck]

\* what every call does to the system: r is the context the operation ended in
Step(eng, op, role, kind, ft, r) ==
    /\ Fired(ft, r)
    /\ run[eng] # "dropped"
    /\ InOrder(eng, op, role, kind) \/ MayDeviate(eng)
    /\ state' = [state EXCEPT ![eng] = r.self]
    /\ vault' = r.v
    /\ nx' = [nx EXCEPT ![eng] = r.nx]
    /\ log' = [log EXCEPT ![eng] = r.log]
    /\ faults' = IF ft.f = 0 THEN faults ELSE faults - 1
    /\ wire' = wire
    /\ last' = [last EXCEPT ![eng] =
                  [op |-> op, err |-> r.err, kind |-> kind,
                   out |-> IF Ok(r) THEN r.out ELSE <<>>, role |-> role,
                   pre |-> Held(state[eng]), nx |-> nx[eng], del |-> r.del,
                   arity |-> Len(r.hk)]]
    /\ IF InOrder(eng, op, role, kind)
       THEN /\ pos' = [pos EXCEPT ![eng] = IF Ok(r) THEN @ + 1 ELSE @]
            /\ run' = [run EXCEPT ![eng] = IF Ok(r) THEN @ ELSE "failed"]
            /\ extra' = extra
       ELSE /\ pos' = pos
            /\ run' = [run EXCEPT ![eng] = "dev"]
            /\ extra' = extra - 1

Encoded(i, payload, r) ==
    /\ net' = IF Ok(r) THEN [net EXCEPT ![i] = Some(r.msg)] ELSE net
    /\ sent' = IF Ok(r) THEN [sent EXCEPT ![i] = Some(payload)] ELSE sent
    /\ dirty' = dirty

Decoded(i, kind) ==
    /\ dirty' = IF kind = "byte" THEN dirty \cup {i} ELSE dirty
    /\ UNCHANGED <<net, sent>>

Start(calls, fails, w) ==
    /\ extra = calls
    /\ faults = fails
    /\ wire = w
    /\ state = [eng \in Engines |->
                  HandshakeState_new(StaticKey(eng), EphemeralKey(eng))]
    /\ vault = [hd \in {StaticKey(eng) : eng \in Engines}
                       \cup {EphemeralKey(eng) : eng \in Engines} |->
                  Secret("X25519", PrivKey(<<hd[1], hd[2]>>))]
    /\ nx = [eng \in Engines |-> EphemeralKey(eng)[2] + 1]
    /\ net = [i \in 1..3 |-> None]
    /\ sent = [i \in 1..3 |-> None]
    /\ last = [eng \in Engines |->
                 [op |-> "new", err |-> "ok", kind |-> "none", out |-> <<>>,
                  role |-> eng, pre |-> [e |-> None, k |-> None, ck |-> None],
                  nx |-> EphemeralKey(eng)[2] + 1, del |-> {}, arity |-> 0]]
    /\ dirty = {}
    /\ pos = [eng \in Engines |-> 0]
    /\ run = [eng \in Engines |-> "sound"]
    /\ log = [eng \in Engines |-> <<>>]

Initialize ==
    \E eng \in Engines, ft \in Faults :
        /\ Step(eng, "initialize", eng, "none", ft,
                Run(Context(eng, ft.f, ft.fk, <<>>, eng), initialize))
        /\ UNCHANGED <<net, sent, dirty>>

EncodeMessage1 ==
    \E eng \in Engines, payload \in Payloads, ft \in Faults :
        LET r == Run(Context(eng, ft.f, ft.fk, payload, eng), encode_message1) IN
        /\ Step(eng, "encode_message1", eng, "none", ft, r)
        /\ Encoded(1, payload, r)

EncodeMessage2 ==
    \E eng \in Engines, payload \in Payloads, ft \in Faults :
        LET r == Run(Context(eng, ft.f, ft.fk, payload, eng), encode_message2) IN
        /\ Step(eng, "encode_message2", eng, "none", ft, r)
        /\ Encoded(2, payload, r)

EncodeMessage3 ==
    \E eng \in Engines, payload \in Payloads, ft \in Faults :
        LET r == Run(Context(eng, ft.f, ft.fk, payload, eng), encode_message3) IN
        /\ Step(eng, "encode_message3", eng, "none", ft, r)
        /\ Encoded(3, payload, r)

DecodeMessage1 ==
    \E eng \in Engines, in \in Inputs(1), ft \in Faults :
        /\ Step(eng, "decode_message1", eng, in.kind, ft,
                Run(Context(eng, ft.f, ft.fk, in.m, eng), decode_message1))
        /\ Decoded(1, in.kind)

DecodeMessage2 ==
    \E eng \in Engines, in \in Inputs(2), ft \in Faults :
        /\ Step(eng, "decode_message2", eng, in.kind, ft,
                Run(Context(eng, ft.f, ft.fk, in.m, eng), decode_message2))
        /\ Decoded(2, in.kind)

DecodeMessage3 ==
    \E eng \in Engines, in \in Inputs(3), ft \in Faults :
        /\ Step(eng, "decode_message3", eng, in.kind, ft,
                Run(Context(eng, ft.f, ft.fk, in.m, eng), decode_message3))
        /\ Decoded(3, in.kind)

SetFinalState ==
    \E eng \in Engines, role \in Engines, ft \in Faults :
        /\ Step(eng, "set_final_state", role, "none", ft,
                Run(Context(eng, ft.f, ft.fk, <<>>, role), set_final_state))
        /\ UNCHANGED <<net, sent, dirty>>

\* the caller abandons the engine: Handshake and HandshakeState have no Drop
\* implementation, so the memory goes and no vault call is made
Abandon ==
    \E eng \in Engines :
        /\ run[eng] # "dropped"
        /\ run' = [run EXCEPT ![eng] = "dropped"]
        /\ UNCHANGED <<state, vault, nx, net, sent, last, pos, extra, faults,
                       wire, dirty, log>>

Next ==
    \/ Initialize
    \/ EncodeMessage1
    \/ DecodeMessage1
    \/ EncodeMessage2
    \/ DecodeMessage2
    \/ EncodeMessage3
    \/ DecodeMessage3
    \/ SetFinalState
    \/ Abandon

\* a matched handshake: both callers follow the order and stop at the first
\* error; payloads vary and the wire may change or cut the messages
Init == Start(0, 0, TRUE)
Spec == Init /\ [][Next]_vars

\* a caller that calls out of order or goes on after an error
InitCalls == Start(MaxExtra, 0, FALSE)
SpecCalls == InitCalls /\ [][Next]_vars

\* a vault whose calls may fail
InitFaults == Start(0, MaxFaults, FALSE)
SpecFaults == InitFaults /\ [][Next]_vars

\* a caller that may call out of order and a vault that may fail, together
InitMixed == Start(MaxMixed, MaxMixed, FALSE)
SpecMixed == InitMixed /\ [][Next]_vars

(* ------------------------------------------------------------------ claims *)
DecodeOp(i) ==
    IF i = 1 THEN "decode_message1"
    ELSE IF i = 2 THEN "decode_message2" ELSE "decode_message3"

Done(eng) == run[eng] = "sound" /\ pos[eng] = Len(Order(eng))

\* C1: in a matched in-order handshake whose messages arrive as they were
\* encoded, decode_message_i succeeds and returns exactly the payload that
\* was given to encode_message_i, for i in 1..3, empty payload included.
C1_RoundTrip ==
    \A eng \in Engines, i \in 1..3 :
        (dirty = {} /\ last[eng].op = DecodeOp(i) /\ last[eng].kind = "genuine")
        => /\ last[eng].err = "ok"
           /\ sent[i] # None
           /\ last[eng].out = sent[i][1]

C1_Witness ==
    /\ last[Responder].op = "decode_message3"
    /\ last[Responder].kind = "genuine"
    /\ last[Responder].out # <<>>
    /\ last[Initiator].op = "encode_message3"
    /\ sent[2] = Some(<<>>)
    /\ dirty = {}

\* C2: after a matched in-order handshake in which each side finalized with
\* its own role, the secret behind the initiator's encryption_key is the one
\* behind the responder's decryption_key, and the initiator's decryption_key
\* the responder's encryption_key.
KeyOf(hd) == IF hd \in DOMAIN vault THEN Some(vault[hd]) ELSE None

C2_KeysAgree ==
    (Done(Initiator) /\ Done(Responder))
    => /\ state[Initiator].status.t = "Ready"
       /\ state[Responder].status.t = "Ready"
       /\ KeyOf(state[Initiator].status.encryption_key) # None
       /\ KeyOf(state[Initiator].status.decryption_key) # None
       /\ KeyOf(state[Initiator].status.encryption_key)
            = KeyOf(state[Responder].status.decryption_key)
       /\ KeyOf(state[Initiator].status.decryption_key)
            = KeyOf(state[Responder].status.encryption_key)
       /\ KeyOf(state[Initiator].status.encryption_key)
            # KeyOf(state[Initiator].status.decryption_key)

C2_Witness == Done(Initiator) /\ Done(Responder)

\* C3: status is Ready only when the three messages have been processed in
\* order for the local role (and is Ready once the whole order, finalize
\* included, has succeeded); finalize right after initialize must not yield
\* Ready.
C3_ReadyIffProcessed ==
    \A eng \in Engines :
        /\ state[eng].status.t = "Ready" => pos[eng] >= Len(Order(eng)) - 1
        /\ Done(eng) => state[eng].status.t = "Ready"

\* the call made on eng in this step is not the next one of its role's order
OutOfOrder(eng) ==
    /\ run[eng] = "sound"
    /\ run'[eng] = "dev"
    /\ \/ pos[eng] = Len(Order(eng))
       \/ last'[eng].op # Order(eng)[pos[eng] + 1]

\* C4: an operation called out of the order of the role is rejected with an
\* error and leaves the engine state unchanged.
C4_OutOfOrderRejected ==
    [][\A eng \in Engines :
          OutOfOrder(eng) => /\ last'[eng].err # "ok"
                             /\ state'[eng] = state[eng]]_vars

\* C5: once an operation of an engine has returned an error, every
\* operation called on it afterwards fails too and it never becomes Ready.
C5_FailureTerminal ==
    [][\A eng \in Engines :
          last[eng].err # "ok" => /\ last'[eng].err # "ok"
                                  /\ state'[eng].status.t # "Ready"]_vars

\* C6: once status is Ready, neither it nor the pair of keys it holds ever
\* changes again.
C6_ReadyOnce ==
    [][\A eng \in Engines :
          state[eng].status.t = "Ready"
          => state'[eng].status = state[eng].status]_vars

\* C7: in a matched handshake a message with one byte changed makes the
\* decode it is given to fail with an AEAD authentication failure, except
\* message 1, which decode_message1 accepts and which makes decode_message2
\* on the initiator fail its AEAD verification; no handshake in which a
\* byte was changed ends with both sides Ready.
C7_TamperDetected ==
    /\ \A eng \in Engines :
          (last[eng].kind = "byte"
           /\ last[eng].op \in {"decode_message2", "decode_message3"})
          => last[eng].err = "AeadFailure"
    /\ (last[Responder].op = "decode_message1" /\ last[Responder].kind = "byte")
       => last[Responder].err = "ok"
    /\ (1 \in dirty /\ last[Initiator].op = "decode_message2"
        /\ last[Initiator].kind \in {"genuine", "byte"})
       => last[Initiator].err = "AeadFailure"
    /\ dirty # {} => ~(Done(Initiator) /\ Done(Responder))

C7_Witness ==
    /\ dirty = {1}
    /\ last[Initiator].op = "decode_message2"
    /\ last[Initiator].kind = "genuine"
    /\ last[Initiator].err = "AeadFailure"

\* C8: n is 0 right after every successful initialize, whatever ran on the
\* engine before.
C8_InitializeResetsN ==
    \A eng \in Engines :
        (last[eng].op = "initialize" /\ last[eng].err = "ok")
        => state[eng].n = 0

\* C9: the nonce of every AEAD call is 4 zero bytes and n as 8 big-endian
\* bytes, and the successive AEAD calls an engine makes under one key k see
\* strictly increasing n.
C9_NonceIncreasing ==
    \A eng \in Engines :
        \A i, j \in 1..Len(log[eng]) :
            /\ log[eng][i].nonce = <<0, 0, 0, 0, 0, 0, 0, 0, 0, 0, 0, log[eng][i].n>>
            /\ (i < j /\ log[eng][i].ok /\ log[eng][j].ok
                /\ log[eng][i].k = log[eng][j].k)
               => log[eng][i].n < log[eng][j].n

\* C10: after finalize has returned successfully, the e, k and ck the
\* engine held before it no longer exist in the vault, and its e, k and ck
\* slots are empty.
C10_FinalizeDeletes ==
    \A eng \in Engines :
        (last[eng].op = "set_final_state" /\ last[eng].err = "ok")
        => \A slot \in {"e", "k", "ck"} :
              /\ state[eng][slot] = None
              /\ last[eng].pre[slot] # None
              /\ last[eng].pre[slot][1] \notin DOMAIN vault

C10_Witness ==
    /\ last[Initiator].op = "set_final_state"
    /\ last[Initiator].err = "ok"
    /\ run[Initiator] = "dev"
    /\ Cardinality({hd \in DOMAIN vault : hd[1] = Initiator}) > 3

\* C11: whenever the k or ck slot of an engine receives a new handle in
\* place of one it held, the superseded handle no longer exists in the
\* vault once the new one is stored.
C11_SupersededReleased ==
    [][\A eng \in Engines, slot \in {"k", "ck"} :
          (/\ state[eng][slot] # None
           /\ state'[eng][slot] # None
           /\ state'[eng][slot] # state[eng][slot])
          => state[eng][slot][1] \notin DOMAIN vault']_vars

\* C12: a decode given a buffer one byte shorter than the fixed part of its
\* message fails with the length-mismatch error, and leaves the engine's
\* e, k and ck slots as they were and the secrets behind k and ck in the
\* vault.
C12_ShortBufferRejected ==
    \A eng \in Engines :
        last[eng].kind = "short"
        => /\ last[eng].err = "MessageLenMismatch"
           /\ Held(state[eng]) = last[eng].pre
           /\ \A slot \in {"k", "ck"} :
                 last[eng].pre[slot] # None
                 => last[eng].pre[slot][1] \in DOMAIN vault

\* C13: no operation, successful or failed, asks the vault to delete the
\* static key s of an engine; s stays in the vault and in the s slot,
\* after finalize too.
C13_StaticKeyKept ==
    \A eng \in Engines :
        /\ \A o \in Engines : StaticKey(eng) \notin last[o].del
        /\ StaticKey(eng) \in DOMAIN vault
        /\ state[eng].s = Some(StaticKey(eng))

C13_Witness ==
    /\ last[Responder].op = "set_final_state"
    /\ last[Responder].err = "ok"
    /\ EphemeralKey(Responder) \in last[Responder].del
    /\ last[Initiator].err = "VaultError"
    /\ last[Initiator].del # {}

\* C14: when the last HKDF of an operation answers with a number of handles
\* other than two, the operation fails with the internal vault error, and
\* the k and ck handles the engine held before the call are still in its
\* slots and still exist in the vault.
C14_ArityRejected ==
    \A eng \in Engines :
        last[eng].arity \notin {0, 2}
        => /\ last[eng].err = "InternalVaultError"
           /\ \A slot \in {"k", "ck"} :
                 /\ state[eng][slot] = last[eng].pre[slot]
                 /\ last[eng].pre[slot] # None
                    => last[eng].pre[slot][1] \in DOMAIN vault

\* C15: once the caller has abandoned an engine that was not finalized,
\* the e, k and ck the engine held no longer exist in the vault.
C15_AbandonReleases ==
    \A eng \in Engines :
        (run[eng] = "dropped" /\ state[eng].status.t # "Ready")
        => \A slot \in {"e", "k", "ck"} :
              state[eng][slot] # None
              => state[eng][slot][1] \notin DOMAIN vault

\* the engine's last call was initialize, on the state new had built
FreshlyInitialized(eng) ==
    /\ last[eng].op = "initialize"
    /\ last[eng].err = "ok"
    /\ last[eng].pre = [e |-> Some(EphemeralKey(eng)), k |-> None, ck |-> None]

\* C16: after initialize on a freshly constructed engine, h is SHA256 of
\* the 32-byte protocol label, ck holds that label, k holds the all-zero
\* AES-256 key and n is 0, whatever the keys of the engine; two such
\* engines agree on h and on the content of ck.
C16_InitializeValues ==
    /\ \A eng \in Engines :
          FreshlyInitialized(eng)
          => /\ state[eng].h = sha256(Whole(Label, SHA256_SIZE_USIZE))
             /\ KeyOf(state[eng].ck[1]) = Some(Secret("Buffer", Label))
             /\ KeyOf(state[eng].k[1]) = Some(Secret("Aes256", Zeros))
             /\ state[eng].n = 0
    /\ (FreshlyInitialized(Initiator) /\ FreshlyInitialized(Responder))
       => /\ state[Initiator].h = state[Responder].h
          /\ vault[state[Initiator].ck[1]] = vault[state[Responder].ck[1]]
          /\ state[Initiator].e # state[Responder].e

C16_Witness == FreshlyInitialized(Initiator) /\ FreshlyInitialized(Responder)

\* the segments of m are ciphertexts of plaintexts of the lengths ps, each
\* as long as its plaintext plus the tag
Encrypted(m, ps) ==
    /\ Len(m) = Len(ps)
    /\ \A j \in 1..Len(ps) :
          /\ m[j].v.t = "ct"
          /\ m[j].o = 0
          /\ BLen(m[j].v.pt) = ps[j]
          /\ m[j].l = ps[j] + 16

\* C17: for a payload of P bytes, P = 0 included, a successful
\* encode_message1 returns 32 + P bytes (e.pub, then the payload),
\* encode_message2 96 + P bytes (e.pub, 48 bytes of encrypted s.pub, P + 16
\* bytes of encrypted payload) and encode_message3 64 + P bytes (48 bytes
\* of encrypted s.pub, P + 16 bytes of encrypted payload).
C17_MessageLengths ==
    /\ net[1] # None
       => /\ BLen(net[1][1]) = 32 + BLen(sent[1][1])
          /\ Take(net[1][1], 32) = Whole(PubKey(EphemeralKey(Initiator)), 32)
          /\ Drop(net[1][1], 32) = sent[1][1]
    /\ net[2] # None
       => /\ BLen(net[2][1]) = 96 + BLen(sent[2][1])
          /\ Take(net[2][1], 32) = Whole(PubKey(EphemeralKey(Responder)), 32)
          /\ Encrypted(Drop(net[2][1], 32), <<32, BLen(sent[2][1])>>)
    /\ net[3] # None
       => /\ BLen(net[3][1]) = 64 + BLen(sent[3][1])
          /\ Encrypted(net[3][1], <<32, BLen(sent[3][1])>>)

C17_Witness ==
    /\ net[1] # None /\ net[2] # None /\ net[3] # None
    /\ BLen(sent[1][1]) = 0
    /\ BLen(sent[2][1]) = MaxPayload
    /\ BLen(sent[3][1]) = 0

\* C18: when initialize or one of the six encode and decode operations
\* returns an error, every field of the engine's state is what it was
\* before the call.
C18_WorkOnCopy ==
    [][\A eng \in Engines :
          (last'[eng].err # "ok" /\ last'[eng].op # "set_final_state")
          => state'[eng] = state[eng]]_vars

C18_Witness ==
    /\ last[Responder].op = "encode_message2"
    /\ last[Responder].err = "VaultError"
    /\ last[Responder].pre.k # None
    /\ last[Responder].pre.k[1] \in last[Responder].del
    /\ last[Initiator].err = "MissingSlot"

\* C19: in every reachable state, each handle in the e, k and ck slots of
\* an engine names a secret that exists in the vault.
C19_HandlesAlive ==
    \A eng \in Engines, slot \in {"e", "k", "ck"} :
        state[eng][slot] # None => state[eng][slot][1] \in DOMAIN vault

\* the handles an engine's state holds: its slots and its final keys
Owned(st) ==
    {StaticKey(Initiator), StaticKey(Responder)}
    \cup {st[slot][1] : slot \in {x \in {"e", "k", "ck"} : st[x] # None}}
    \cup (IF st.status.t = "Ready"
          THEN {st.status.encryption_key, st.status.decryption_key} ELSE {})

\* C20: when an operation has returned an error, every handle the vault
\* allocated to the engine during that operation is either gone from the
\* vault or held in the engine's state.
C20_NoOrphan ==
    \A eng \in Engines :
        last[eng].err # "ok"
        => \A hd \in DOMAIN vault :
              (hd[1] = eng /\ hd[2] >= last[eng].nx) => hd \in Owned(state[eng])

\* the secrets of the vault that were allocated for an engine, s included
Allocated(eng) == {hd \in DOMAIN vault : hd[1] = eng}

\* the HKDF rotations an operation makes
Rotations(op) ==
    IF op \in {"encode_message2", "decode_message2"} THEN 2
    ELSE IF op \in {"encode_message3", "decode_message3"} THEN 1 ELSE 0

\* C21: on the successful path nothing leaks: as long as every call of an
\* in-order handshake has succeeded, the secrets of the engine that exist
\* in the vault are exactly s and the ones its state holds (each rotation
\* has deleted the old ck, the old k and the DH output, and nothing else),
\* and after a successful finalize they are s and the two traffic keys of
\* status.
C21_NoLeakOnSuccess ==
    \A eng \in Engines :
        last[eng].err = "ok"
        => /\ Allocated(eng) = {hd \in Owned(state[eng]) : hd[1] = eng}
           /\ Rotations(last[eng].op) > 0
              => /\ Cardinality(last[eng].del) = 3 * Rotations(last[eng].op)
                 /\ {last[eng].pre.k[1], last[eng].pre.ck[1]} \subseteq last[eng].del
                 /\ last[eng].del \cap Allocated(eng) = {}
           /\ pos[eng] = Len(Order(eng))
              => /\ Allocated(eng) = {StaticKey(eng),
                                     state[eng].status.encryption_key,
                                     state[eng].status.decryption_key}
                 /\ Cardinality(Allocated(eng)) = 3

C21_Witness ==
    /\ Done(Initiator) /\ Done(Responder)
    /\ Cardinality(DOMAIN vault) = 6
    /\ Cardinality(last[Initiator].del) = 3

\* C22: when finalize has returned an error, the status of the engine is
\* Initial and get_handshake_keys answers nothing.
C22_FailedFinalizeNotReady ==
    \A eng \in Engines :
        (last[eng].op = "set_final_state" /\ last[eng].err # "ok")
        => /\ state[eng].status.t = "Initial"
           /\ get_handshake_keys(state[eng]) = None

\* message i has been encoded by one side and decoded by the other, every
\* call so far has succeeded and no byte was changed
InStep(i) ==
    /\ dirty = {}
    /\ pos[Initiator] = i + 1
    /\ pos[Responder] = i + 1
    /\ last[Initiator].err = "ok"
    /\ last[Responder].err = "ok"

\* C23: in a matched in-order handshake without tampering, once message i
\* has been encoded by one side and decoded by the other, both engines
\* hold the same h and the same n, and their ck and k handles name secrets
\* of identical content.
C23_TranscriptAgreement ==
    \A i \in 1..3 :
        InStep(i)
        => /\ state[Initiator].h = state[Responder].h
           /\ state[Initiator].n = state[Responder].n
           /\ \A slot \in {"k", "ck"} :
                 /\ state[Initiator][slot] # None
                 /\ state[Responder][slot] # None
                 /\ KeyOf(state[Initiator][slot][1]) # None
                 /\ KeyOf(state[Initiator][slot][1])
                      = KeyOf(state[Responder][slot][1])

C23_Witness ==
    /\ InStep(3)
    /\ sent[3] # Some(<<>>)
    /\ state[Initiator].n = 1

\* the AEAD encryptions the vault has made: [eng, i] is call i of log[eng]
Encryptions ==
    {x \in UNION {{[eng |-> e, i |-> i] : i \in 1..Len(log[e])} : e \in Engines} :
        log[x.eng][x.i].enc /\ log[x.eng][x.i].ok}

\* C24: no two AEAD encryptions, of either party, are made with the same
\* key content and the same nonce.
C24_NoNonceReuse ==
    \A x, y \in Encryptions :
        (/\ log[x.eng][x.i].key = log[y.eng][y.i].key
         /\ log[x.eng][x.i].nonce = log[y.eng][y.i].nonce)
        => x = y

\* SHA256(h || data), as mix_hash computes it
Mixed(h, data) == mix_hash([h |-> h], data).h

\* C25: every AEAD call of encrypt_and_hash and hash_and_decrypt is made
\* with the current k, the nonce of the current n and the h before the
\* call as associated data; after a successful call h is SHA256 of that h
\* and the ciphertext, and n is one more; a failed call is the last of its
\* operation, which returns the error, with h and n as they were.
C25_AeadContract ==
    \A eng \in Engines : \A i \in 1..Len(log[eng]) :
        LET call == log[eng][i] IN
        /\ call.ok
           => /\ Len(call.ct) = 1
              /\ call.ct[1].v.t = "ct"
              /\ Some(call.ct[1].v.key) = call.key
              /\ call.ct[1].v.nonce = Nonce(call.n)
              /\ call.ct[1].v.ad = call.ad
              /\ i < Len(log[eng])
                 => /\ log[eng][i + 1].ad = Mixed(call.ad, call.ct)
                    /\ log[eng][i + 1].k = call.k
                       => log[eng][i + 1].n = call.n + 1
              /\ (i = Len(log[eng]) /\ last[eng].err = "ok")
                 => /\ state[eng].h = Mixed(call.ad, call.ct)
                    /\ state[eng].n = call.n + 1
                    /\ Rotations(last[eng].op) > 0 => state[eng].k = Some(call.k)
        /\ ~call.ok
           => /\ i = Len(log[eng])
              /\ last[eng].err \in {"AeadFailure", "VaultError"}
              /\ state[eng].k = Some(call.k)
                 => /\ state[eng].h = call.ad
                    /\ state[eng].n = call.n

C25_Witness ==
    /\ Len(log[Responder]) = 3
    /\ ~log[Responder][3].ok
    /\ state[Responder].k = Some(log[Responder][3].k)
    /\ log[Responder][3].n = 1
    /\ Len(log[Initiator]) = 4

====
